---- MODULE Spec2Model ----
(***************************************************************************)
(* easy-dl: binary resolution (ensureBinary / downloadFile) and the piped  *)
(* yt-dlp | ffmpeg pipeline of download(url, options), src/src/lib.ts.     *)
(* The model follows one Node.js process that calls download() up to       *)
(* MaxCalls times, one call after the other, against a file system (the    *)
(* ./bin cache, the output path) that persists between the calls.  The two *)
(* external programs and the HTTP server are the environment: their exit   *)
(* codes, output chunks and responses are chosen nondeterministically.     *)
(***************************************************************************)
EXTENDS Integers, Sequences, FiniteSets, TLC

\* ---------------------------------------------------------------- bounds
MaxCalls  == 2      \* download() invocations in one behaviour
MaxChunks == 2      \* chunks ffmpeg writes to its stdout in one invocation
MaxExit   == 2      \* exit codes range over 0..MaxExit
PipeCap   == 1      \* chunks the stdout pipe holds before ffmpeg blocks

\* ------------------------------------------------------------ value sets
Tools     == {"yt-dlp", "ffmpeg"}
Platforms == {"win32", "darwin", "linux"}
Archs     == {"arm64", "x64"}
Statuses  == {200, 302, 404}
ExitCodes == 0..MaxExit
ChunkVals == {<<1>>, <<2, 3>>}
Undefined == "undefined"
Outputs   == {Undefined, "", "out.mp4"}
Urls      == {"", "https://youtu.be/x"}
NetErr    == "ECONNRESET"
Names     == Tools \cup {"curl"}
Invocations == {"A", "B"}

VARIABLES
    platform,      \* process.platform
    arch,          \* process.arch
    onPath,        \* onPath[t]: the locate command finds the tool's executable
    cache,         \* cache[t]: the file ./bin/<exe> of tool t
    binDir,        \* the directory ./bin exists
    outFile,       \* the file at options.output
    calls,         \* download() invocations started so far
    url,           \* argument of the current invocation
    options,       \* argument of the current invocation
    pc,            \* position of the current invocation
    cur,           \* the tool ensureBinary is resolving
    ytDlp,         \* const ytDlp  (path returned by ensureBinary)
    ffmpeg,        \* const ffmpeg (path returned by ensureBinary)
    yt,            \* ytdlpProc
    ff,            \* ffmpegProc
    emitted,       \* chunks ffmpeg wrote to its stdout, in order
    pipeOut,       \* chunks of ffmpegProc.stdout not yet delivered
    chunks,        \* const chunks: Buffer[]
    ffCode,        \* exit code of ffmpeg
    ytCode,        \* exit code of yt-dlp
    warnings,      \* "exited with code" warnings logged by this invocation
    closeOrder,    \* order in which the close handlers ran
    result,        \* the promise download() returned
    netReq,        \* netReq[t]: get() calls made for tool t in this invocation
    lastUrl,       \* lastUrl[t]: URL of the latest get() for tool t
    consulted,     \* consulted[t]: sources ensureBinary(t) looked at, in order
    fetchStatus,   \* fetchStatus[t]: status of the latest response for tool t
    fetchErr,      \* the error downloadFile rejected with in this invocation
    cacheAtInvoke, \* cache when this invocation started
    dirAtInvoke,   \* binDir when this invocation started
    resolver,      \* resolver[i]: the ensureBinary call of invocation i
    cli,           \* the command-line program (index.ts) and its download call
    argLists       \* the argument lists one download call builds for its processes

envVars  == <<platform, arch, onPath>>
diskVars == <<cache, binDir, outFile>>
callVars == <<calls, url, options, cacheAtInvoke, dirAtInvoke>>
resVars  == <<cur, ytDlp, ffmpeg>>
procVars == <<yt, ff, emitted, pipeOut, chunks, ffCode, ytCode,
              warnings, closeOrder>>
netVars  == <<netReq, lastUrl, consulted, fetchStatus, fetchErr>>
pipeVars == <<callVars, resVars, procVars, netVars, pc, result>>
vars == <<envVars, diskVars, pipeVars, resolver, cli, argLists>>

\* -------------------------------------------------------------- helpers
Pending       == [kind |-> "pending",  data |-> <<>>, err |-> ""]
Rejected(e)   == [kind |-> "rejected", data |-> <<>>, err |-> e]
ResolvedBuf(b) == [kind |-> "buffer",  data |-> b,    err |-> ""]
ResolvedVoid  == [kind |-> "void",     data |-> <<>>, err |-> ""]

\* Variant of BufferConcat that joins the chunks last to first.
RECURSIVE BufferConcatReversed(_)
BufferConcatReversed(list) ==
    IF list = <<>> THEN <<>> ELSE BufferConcatReversed(Tail(list)) \o Head(list)

\* Buffer.concat(chunks)
RECURSIVE BufferConcat(_)
BufferConcat(list) ==
    IF list = <<>> THEN <<>> ELSE Head(list) \o BufferConcat(Tail(list))

\* const exe = isWin ? `${name}.exe` : name
Exe(name) == IF platform = "win32" THEN name \o ".exe" ELSE name

\* const local = join(process.cwd(), "bin", exe)
Local(name) == "bin/" \o Exe(name)

\* Variant of ExistsSync that never finds the cached file.
ExistsSyncNever(name) == cache[name] = "no such state"

\* existsSync(local)
ExistsSync(name) == cache[name] # "absent"

\* the URL ensureBinary passes to downloadFile
UrlFor(name, plat, cpu) ==
    IF name = "yt-dlp"
    THEN IF plat = "win32"
         THEN "https://github.com/yt-dlp/yt-dlp/releases/latest/download/yt-dlp.exe"
         ELSE "https://github.com/yt-dlp/yt-dlp/releases/latest/download/yt-dlp"
    ELSE IF plat = "win32"
         THEN "https://github.com/eugeneware/ffmpeg-static/releases/latest/download/win32-x64.exe"
         ELSE IF plat = "darwin"
              THEN IF cpu = "arm64"
                   THEN "https://github.com/eugeneware/ffmpeg-static/releases/latest/download/darwin-arm64"
                   ELSE "https://github.com/eugeneware/ffmpeg-static/releases/latest/download/darwin-x64"
              ELSE IF cpu = "arm64"
                   THEN "https://github.com/eugeneware/ffmpeg-static/releases/latest/download/linux-arm64"
                   ELSE "https://github.com/eugeneware/ffmpeg-static/releases/latest/download/linux-x64"

\* Variant of IsBufferMode that tests for undefined only.
IsBufferModeStrict(o) == o.output = Undefined

\* const isBufferMode = !options.output
IsBufferMode(o) == o.output = Undefined \/ o.output = ""

\* const outputPath = isBufferMode ? "-" : options.output!
OutputPath(o) == IF IsBufferMode(o) THEN "-" ELSE o.output

\* new Error(`Download failed: ${response.statusCode}`)
DownloadFailed(status) == "Download failed: " \o ToString(status)

\* new Error(`ffmpeg exited with code ${code}`)
FfmpegExited(code) == "ffmpeg exited with code " \o ToString(code)

\* An ensureBinary call that has not started.
ResolverIdle ==
    [i \in Invocations |->
        [name |-> "", pc |-> "idle", ret |-> "", err |-> "", reqs |-> 0, url |-> ""]]

\* The command-line program before it is started.
CliNotStarted == [pc |-> "off"]

\* The argument lists before any call is followed.
ArgsNotBuilt == [pc |-> "off"]

\* ----------------------------------------------------------------- Init
Init ==
    /\ platform \in Platforms
    /\ arch \in Archs
    /\ onPath \in [Tools -> BOOLEAN]
    /\ cache \in [Tools -> {"absent", "complete"}]
    /\ binDir \in BOOLEAN
    /\ (\E t \in Tools : cache[t] # "absent") => binDir
    /\ outFile = "absent"
    /\ calls = 0
    /\ url = ""
    /\ options = [output |-> Undefined]
    /\ pc = "idle"
    /\ cur = "yt-dlp"
    /\ ytDlp = ""
    /\ ffmpeg = ""
    /\ yt = "none"
    /\ ff = "none"
    /\ emitted = <<>>
    /\ pipeOut = <<>>
    /\ chunks = <<>>
    /\ ffCode = 0
    /\ ytCode = 0
    /\ warnings = 0
    /\ closeOrder = <<>>
    /\ result = Pending
    /\ netReq = [t \in Tools |-> 0]
    /\ lastUrl = [t \in Tools |-> ""]
    /\ consulted = [t \in Tools |-> <<>>]
    /\ fetchStatus = [t \in Tools |-> 0]
    /\ fetchErr = ""
    /\ cacheAtInvoke = cache
    /\ dirAtInvoke = binDir
    /\ resolver = ResolverIdle
    /\ cli = CliNotStarted
    /\ argLists = ArgsNotBuilt

\* -------------------------------------------------------------- actions

\* Variant of Continue that spawns yt-dlp as soon as its own path is known,
\* before ffmpeg is resolved.
ContinueSpawnsEarly(p) ==
    IF cur = "yt-dlp"
    THEN /\ ytDlp' = p
         /\ cur' = "ffmpeg"
         /\ pc' = "which"
         /\ yt' = "running"
         /\ UNCHANGED <<ffmpeg, ff>>
    ELSE /\ ffmpeg' = p
         /\ yt' \in {"running", "spawn_failed"}
         /\ ff' \in {"running", "spawn_failed"}
         /\ pc' = "streaming"
         /\ UNCHANGED <<ytDlp, cur>>

\* What download() does once ensureBinary(cur) has returned path p: after
\* yt-dlp it starts ensureBinary("ffmpeg"); after ffmpeg it runs the promise
\* executor, which spawns both processes and attaches the listeners.  A
\* spawn the operating system refuses shows later as an 'error' event.
Continue(p) ==
    IF cur = "yt-dlp"
    THEN /\ ytDlp' = p
         /\ cur' = "ffmpeg"
         /\ pc' = "which"
         /\ UNCHANGED <<ffmpeg, yt, ff>>
    ELSE /\ ffmpeg' = p
         /\ yt' \in {"running", "spawn_failed"}
         /\ ff' \in {"running", "spawn_failed"}
         /\ pc' = "streaming"
         /\ UNCHANGED <<ytDlp, cur>>

\* download(u, o) is called: the URL check, then ensureBinary("yt-dlp")
\* starts its locate command.
Invoke(u, o) ==
    /\ UNCHANGED <<resolver, cli, argLists>>
    /\ calls < MaxCalls
    /\ pc \in {"idle", "completed", "failed", "crashed", "hung"}
    /\ yt \in {"none", "closed", "orphaned"}
    /\ ff \in {"none", "closed", "orphaned"}
    /\ calls' = calls + 1
    /\ url' = u
    /\ options' = o
    /\ cacheAtInvoke' = cache
    /\ dirAtInvoke' = binDir
    /\ cur' = "yt-dlp"
    /\ ytDlp' = ""
    /\ ffmpeg' = ""
    /\ yt' = "none"
    /\ ff' = "none"
    /\ emitted' = <<>>
    /\ pipeOut' = <<>>
    /\ chunks' = <<>>
    /\ ffCode' = 0
    /\ ytCode' = 0
    /\ warnings' = 0
    /\ closeOrder' = <<>>
    /\ netReq' = [t \in Tools |-> 0]
    /\ consulted' = [t \in Tools |-> <<>>]
    /\ fetchErr' = ""
    /\ IF u = ""
       THEN /\ result' = Rejected("No URL provided for download")
            /\ pc' = "failed"
       ELSE /\ result' = Pending
            /\ pc' = "which"
    /\ UNCHANGED <<envVars, diskVars, lastUrl, fetchStatus>>

\* Variant of EnsureBinary that looks into ./bin before it asks the locate
\* command's result.
EnsureBinaryCacheFirst ==
    /\ UNCHANGED <<resolver, cli, argLists>>
    /\ pc = "which"
    /\ IF ExistsSync(cur)
       THEN /\ consulted' = [consulted EXCEPT ![cur] = <<"cache">>]
            /\ Continue(Local(cur))
            /\ UNCHANGED <<diskVars, netReq, lastUrl, fetchStatus>>
       ELSE IF onPath[cur]
       THEN /\ consulted' = [consulted EXCEPT ![cur] = <<"cache", "path">>]
            /\ Continue(Exe(cur))
            /\ UNCHANGED <<diskVars, netReq, lastUrl, fetchStatus>>
       ELSE /\ consulted' = [consulted EXCEPT ![cur] = <<"cache", "path", "fetch">>]
            /\ binDir' = TRUE
            /\ cache' = [cache EXCEPT ![cur] = "empty"]
            /\ netReq' = [netReq EXCEPT ![cur] = @ + 1]
            /\ lastUrl' = [lastUrl EXCEPT ![cur] = UrlFor(cur, platform, arch)]
            /\ fetchStatus' = [fetchStatus EXCEPT ![cur] = 0]
            /\ pc' = "fetching"
            /\ UNCHANGED <<outFile, resVars, yt, ff>>
    /\ UNCHANGED <<envVars, callVars, emitted, pipeOut, chunks, ffCode,
                   ytCode, warnings, closeOrder, fetchErr, result>>

\* ensureBinary(cur): the locate command has exited.  Exit code zero returns
\* the bare executable name; otherwise the catch block checks ./bin/<exe>
\* and, when the file is missing, starts downloadFile (mkdirSync,
\* createWriteStream, get) in the same turn.
EnsureBinary ==
    /\ UNCHANGED <<resolver, cli, argLists>>
    /\ pc = "which"
    /\ IF onPath[cur]
       THEN /\ consulted' = [consulted EXCEPT ![cur] = <<"path">>]
            /\ Continue(Exe(cur))
            /\ UNCHANGED <<diskVars, netReq, lastUrl, fetchStatus>>
       ELSE IF ExistsSync(cur)
       THEN /\ consulted' = [consulted EXCEPT ![cur] = <<"path", "cache">>]
            /\ Continue(Local(cur))
            /\ UNCHANGED <<diskVars, netReq, lastUrl, fetchStatus>>
       ELSE /\ consulted' = [consulted EXCEPT ![cur] = <<"path", "cache", "fetch">>]
            /\ binDir' = TRUE
            /\ cache' = [cache EXCEPT ![cur] = "empty"]
            /\ netReq' = [netReq EXCEPT ![cur] = @ + 1]
            /\ lastUrl' = [lastUrl EXCEPT ![cur] = UrlFor(cur, platform, arch)]
            /\ fetchStatus' = [fetchStatus EXCEPT ![cur] = 0]
            /\ pc' = "fetching"
            /\ UNCHANGED <<outFile, resVars, yt, ff>>
    /\ UNCHANGED <<envVars, callVars, emitted, pipeOut, chunks, ffCode,
                   ytCode, warnings, closeOrder, fetchErr, result>>

\* Variant of FetchResponse that issues the request a second time after a
\* status other than 200.
FetchResponseRetry(status) ==
    /\ UNCHANGED <<resolver, cli, argLists>>
    /\ pc = "fetching"
    /\ fetchStatus' = [fetchStatus EXCEPT ![cur] = status]
    /\ IF status # 200
       THEN IF netReq[cur] < 2
            THEN /\ netReq' = [netReq EXCEPT ![cur] = @ + 1]
                 /\ UNCHANGED <<fetchErr, result, pc>>
            ELSE /\ fetchErr' = DownloadFailed(status)
                 /\ result' = Rejected(DownloadFailed(status))
                 /\ pc' = "failed"
                 /\ UNCHANGED netReq
       ELSE /\ pc' = "body"
            /\ UNCHANGED <<fetchErr, result, netReq>>
    /\ UNCHANGED <<envVars, diskVars, callVars, resVars, procVars, lastUrl,
                   consulted>>

\* downloadFile: the response callback of get().  A status other than 200
\* rejects; the rejection passes through ensureBinary and download.
FetchResponse(status) ==
    /\ UNCHANGED <<resolver, cli, argLists>>
    /\ pc = "fetching"
    /\ fetchStatus' = [fetchStatus EXCEPT ![cur] = status]
    /\ IF status # 200
       THEN /\ fetchErr' = DownloadFailed(status)
            /\ result' = Rejected(DownloadFailed(status))
            /\ pc' = "failed"
       ELSE /\ pc' = "body"
            /\ UNCHANGED <<fetchErr, result>>
    /\ UNCHANGED <<envVars, diskVars, callVars, resVars, procVars, netReq,
                   lastUrl, consulted>>

\* downloadFile: the request's 'error' event before any response.
FetchError ==
    /\ UNCHANGED <<resolver, cli, argLists>>
    /\ pc = "fetching"
    /\ fetchErr' = NetErr
    /\ result' = Rejected(NetErr)
    /\ pc' = "failed"
    /\ UNCHANGED <<envVars, diskVars, callVars, resVars, procVars, netReq,
                   lastUrl, consulted, fetchStatus>>

\* response.pipe(file): a part of the body reaches the file.
BodyChunk ==
    /\ UNCHANGED <<resolver, cli, argLists>>
    /\ pc = "body"
    /\ cache[cur] = "empty"
    /\ cache' = [cache EXCEPT ![cur] = "partial"]
    /\ UNCHANGED <<envVars, binDir, outFile, callVars, resVars, procVars,
                   netVars, pc, result>>

\* file.on("finish"): the whole body is written, downloadFile resolves and
\* ensureBinary returns the cache path.
BodyFinish ==
    /\ UNCHANGED <<resolver, cli, argLists>>
    /\ pc = "body"
    /\ cache[cur] = "partial"
    /\ cache' = [cache EXCEPT ![cur] = "complete"]
    /\ Continue(Local(cur))
    /\ UNCHANGED <<envVars, binDir, outFile, callVars, emitted, pipeOut,
                   chunks, ffCode, ytCode, warnings, closeOrder, netVars,
                   result>>

\* The connection breaks while the body is streamed.  Either the request
\* emits 'error' (reject), or only the response is aborted: the file never
\* finishes and the promise never settles.
BodyError ==
    /\ UNCHANGED <<resolver, cli, argLists>>
    /\ pc = "body"
    /\ \/ /\ fetchErr' = NetErr
          /\ result' = Rejected(NetErr)
          /\ pc' = "failed"
       \/ /\ pc' = "hung"
          /\ UNCHANGED <<fetchErr, result>>
    /\ UNCHANGED <<envVars, diskVars, callVars, resVars, procVars, netReq,
                   lastUrl, consulted, fetchStatus>>

\* A spawn failed: the child emits 'error', nothing listens for it, and the
\* uncaught exception ends the Node.js process before any other event.
SpawnError ==
    /\ UNCHANGED <<resolver, cli, argLists>>
    /\ pc = "streaming"
    /\ yt = "spawn_failed" \/ ff = "spawn_failed"
    /\ pc' = "crashed"
    /\ yt' = "orphaned"
    /\ ff' = "orphaned"
    /\ UNCHANGED <<envVars, diskVars, callVars, resVars, emitted,
                   pipeOut, chunks, ffCode, ytCode, warnings, closeOrder,
                   netVars, result>>

\* yt-dlp writes the media to the file named by -o.  (With -o "-" it writes
\* to its stdout instead, which is piped straight into ffmpeg's stdin and
\* is never seen by download.)
YtWrite ==
    /\ UNCHANGED <<resolver, cli, argLists>>
    /\ yt = "running"
    /\ ff # "spawn_failed"
    /\ OutputPath(options) # "-"
    /\ outFile' = "written"
    /\ UNCHANGED <<envVars, cache, binDir, callVars, resVars, procVars,
                   netVars, pc, result>>

\* Variant of YtClose that resolves the promise when yt-dlp exits cleanly.
YtCloseResolves(code) ==
    /\ UNCHANGED <<resolver, cli, argLists>>
    /\ yt = "running"
    /\ ff # "spawn_failed"
    /\ yt' = "closed"
    /\ ytCode' = code
    /\ warnings' = IF code # 0 THEN warnings + 1 ELSE warnings
    /\ closeOrder' = Append(closeOrder, "yt")
    /\ IF code = 0 /\ result.kind = "pending"
       THEN /\ result' = ResolvedVoid
            /\ pc' = "completed"
       ELSE UNCHANGED <<pc, result>>
    /\ UNCHANGED <<envVars, diskVars, callVars, resVars, ff, emitted,
                   pipeOut, chunks, ffCode, netVars>>

\* Variant of YtClose that rejects the promise on a non-zero code.
YtCloseRejects(code) ==
    /\ UNCHANGED <<resolver, cli, argLists>>
    /\ yt = "running"
    /\ ff # "spawn_failed"
    /\ yt' = "closed"
    /\ ytCode' = code
    /\ warnings' = IF code # 0 THEN warnings + 1 ELSE warnings
    /\ closeOrder' = Append(closeOrder, "yt")
    /\ IF code # 0 /\ result.kind = "pending"
       THEN /\ result' = Rejected("yt-dlp exited with code " \o ToString(code))
            /\ pc' = "failed"
       ELSE UNCHANGED <<pc, result>>
    /\ UNCHANGED <<envVars, diskVars, callVars, resVars, ff, emitted,
                   pipeOut, chunks, ffCode, netVars>>

\* ytdlpProc.on("close"): a non-zero code is logged and nothing else.
YtClose(code) ==
    /\ UNCHANGED <<resolver, cli, argLists>>
    /\ yt = "running"
    /\ ff # "spawn_failed"
    /\ yt' = "closed"
    /\ ytCode' = code
    /\ warnings' = IF code # 0 THEN warnings + 1 ELSE warnings
    /\ closeOrder' = Append(closeOrder, "yt")
    /\ UNCHANGED <<envVars, diskVars, callVars, resVars, ff, emitted,
                   pipeOut, chunks, ffCode, netVars, pc, result>>

\* ffmpeg writes a chunk to its stdout (pipe:1).
FfWrite(c) ==
    /\ UNCHANGED <<resolver, cli, argLists>>
    /\ ff = "running"
    /\ yt # "spawn_failed"
    /\ Len(emitted) < MaxChunks
    /\ Len(pipeOut) < PipeCap
    /\ emitted' = Append(emitted, c)
    /\ pipeOut' = Append(pipeOut, c)
    /\ UNCHANGED <<envVars, diskVars, callVars, resVars, yt, ff, chunks,
                   ffCode, ytCode, warnings, closeOrder, netVars, pc, result>>

\* Variant of FfData with the data listener attached in both modes.
FfDataAlways ==
    /\ UNCHANGED <<resolver, cli, argLists>>
    /\ ff \in {"running", "exited"}
    /\ yt # "spawn_failed"
    /\ pipeOut # <<>>
    /\ chunks' = Append(chunks, Head(pipeOut))
    /\ pipeOut' = Tail(pipeOut)
    /\ UNCHANGED <<envVars, diskVars, callVars, resVars, yt, ff, emitted,
                   ffCode, ytCode, warnings, closeOrder, netVars, pc, result>>

\* ffmpegProc.stdout.on("data"), attached in buffer mode only.
FfData ==
    /\ UNCHANGED <<resolver, cli, argLists>>
    /\ ff \in {"running", "exited"}
    /\ yt # "spawn_failed"
    /\ IsBufferMode(options)
    /\ pipeOut # <<>>
    /\ chunks' = Append(chunks, Head(pipeOut))
    /\ pipeOut' = Tail(pipeOut)
    /\ UNCHANGED <<envVars, diskVars, callVars, resVars, yt, ff, emitted,
                   ffCode, ytCode, warnings, closeOrder, netVars, pc, result>>

\* The ffmpeg process ends; its stdout may still hold undelivered chunks.
FfExit(code) ==
    /\ UNCHANGED <<resolver, cli, argLists>>
    /\ ff = "running"
    /\ yt # "spawn_failed"
    /\ ff' = "exited"
    /\ ffCode' = code
    /\ UNCHANGED <<envVars, diskVars, callVars, resVars, yt, emitted,
                   pipeOut, chunks, ytCode, warnings, closeOrder, netVars, pc,
                   result>>

\* Variant of FfClose that resolves ffmpeg again after a non-zero exit code
\* instead of rejecting.
FfCloseRetries ==
    /\ UNCHANGED <<resolver, cli, argLists>>
    /\ ff = "exited"
    /\ IsBufferMode(options) => pipeOut = <<>>
    /\ ff' = "closed"
    /\ pipeOut' = <<>>
    /\ closeOrder' = Append(closeOrder, "ff")
    /\ IF ffCode # 0
       THEN /\ pc' = "which"
            /\ UNCHANGED result
       ELSE /\ result' = IF IsBufferMode(options)
                         THEN ResolvedBuf(BufferConcat(chunks))
                         ELSE ResolvedVoid
            /\ pc' = "completed"
    /\ UNCHANGED <<envVars, diskVars, callVars, resVars, yt, emitted,
                   chunks, ffCode, ytCode, warnings, netVars>>

\* Variant of FfClose that lets a clean yt-dlp exit override ffmpeg's code.
FfCloseYtOverrides ==
    /\ UNCHANGED <<resolver, cli, argLists>>
    /\ ff = "exited"
    /\ IsBufferMode(options) => pipeOut = <<>>
    /\ ff' = "closed"
    /\ pipeOut' = <<>>
    /\ closeOrder' = Append(closeOrder, "ff")
    /\ IF ffCode # 0 /\ ~(yt = "closed" /\ ytCode = 0)
       THEN /\ result' = Rejected(FfmpegExited(ffCode))
            /\ pc' = "failed"
       ELSE /\ result' = IF IsBufferMode(options)
                         THEN ResolvedBuf(BufferConcat(chunks))
                         ELSE ResolvedVoid
            /\ pc' = "completed"
    /\ UNCHANGED <<envVars, diskVars, callVars, resVars, yt, emitted,
                   chunks, ffCode, ytCode, warnings, netVars>>

\* ffmpegProc.on("close"): emitted after the process has ended and its stdio
\* streams are closed (a stream nobody reads is flushed on exit).
FfClose ==
    /\ UNCHANGED <<resolver, cli, argLists>>
    /\ ff = "exited"
    /\ IsBufferMode(options) => pipeOut = <<>>
    /\ ff' = "closed"
    /\ pipeOut' = <<>>
    /\ closeOrder' = Append(closeOrder, "ff")
    /\ IF ffCode # 0
       THEN /\ result' = Rejected(FfmpegExited(ffCode))
            /\ pc' = "failed"
       ELSE /\ result' = IF IsBufferMode(options)
                         THEN ResolvedBuf(BufferConcat(chunks))
                         ELSE ResolvedVoid
            /\ pc' = "completed"
    /\ UNCHANGED <<envVars, diskVars, callVars, resVars, yt, emitted,
                   chunks, ffCode, ytCode, warnings, netVars>>

Next ==
    \/ \E u \in Urls, o \in [output : Outputs] : Invoke(u, o)
    \/ EnsureBinary
    \/ \E s \in Statuses : FetchResponse(s)
    \/ FetchError
    \/ BodyChunk
    \/ BodyFinish
    \/ BodyError
    \/ SpawnError
    \/ YtWrite
    \/ \E c \in ExitCodes : YtClose(c)
    \/ \E c \in ChunkVals : FfWrite(c)
    \/ FfData
    \/ \E c \in ExitCodes : FfExit(c)
    \/ FfClose

Spec == Init /\ [][Next]_vars

\* ------------------------------------------------- concurrent resolution
\* Several invocations (of one process or of several processes) resolve a
\* binary against the same ./bin directory.  Each follows ensureBinary and
\* downloadFile step by step; the file system is shared and unsynchronized,
\* so the cache check and the creation of the file are separate steps.

\* The values pipeline variables keep while only the resolver runs.
PipelineIdle ==
    /\ outFile = "absent"
    /\ calls = 0
    /\ url = ""
    /\ options = [output |-> Undefined]
    /\ pc = "idle"
    /\ cur = "yt-dlp"
    /\ ytDlp = ""
    /\ ffmpeg = ""
    /\ yt = "none"
    /\ ff = "none"
    /\ emitted = <<>>
    /\ pipeOut = <<>>
    /\ chunks = <<>>
    /\ ffCode = 0
    /\ ytCode = 0
    /\ warnings = 0
    /\ closeOrder = <<>>
    /\ result = Pending
    /\ netReq = [t \in Tools |-> 0]
    /\ lastUrl = [t \in Tools |-> ""]
    /\ consulted = [t \in Tools |-> <<>>]
    /\ fetchStatus = [t \in Tools |-> 0]
    /\ fetchErr = ""
    /\ cacheAtInvoke = [t \in Tools |-> "absent"]
    /\ dirAtInvoke = FALSE

InitResolver ==
    /\ platform \in Platforms
    /\ arch \in Archs
    /\ onPath \in [Names -> BOOLEAN]
    /\ cache \in [Names -> {"absent", "complete"}]
    /\ binDir = (\E n \in Names : cache[n] # "absent")
    /\ resolver = ResolverIdle
    /\ cli = CliNotStarted
    /\ argLists = ArgsNotBuilt
    /\ PipelineIdle

\* Variant of Decide that fetches whatever name it is given.
DecideFetchesAny(name) ==
    IF onPath[name] THEN "path"
    ELSE IF ExistsSync(name) THEN "cache"
    ELSE "fetch"

\* The branch ensureBinary(name) takes once the locate command has exited:
\* return exe, return local, fetch (the two known names only), or throw.
Decide(name) ==
    IF onPath[name] THEN "path"
    ELSE IF ExistsSync(name) THEN "cache"
    ELSE IF name = "yt-dlp" \/ name = "ffmpeg" THEN "fetch"
    ELSE "throw"

\* Invocation i is streaming a response body into ./bin/<exe> of name n.
Writing(i, n) ==
    resolver[i].name = n /\ resolver[i].pc \in {"fetching", "body"}

\* ensureBinary(n) is called: the locate command is started.
RCall(i, n) ==
    /\ resolver[i].pc = "idle"
    /\ resolver' = [resolver EXCEPT ![i].name = n, ![i].pc = "which"]
    /\ UNCHANGED <<envVars, diskVars, pipeVars, cli, argLists>>

\* The locate command has exited: try/catch and the cache check of
\* ensureBinary, up to the call of downloadFile.
RLocated(i) ==
    /\ resolver[i].pc = "which"
    /\ LET n == resolver[i].name
           d == Decide(n)
       IN resolver' =
            IF d = "path"
            THEN [resolver EXCEPT ![i].ret = Exe(n), ![i].pc = "returned"]
            ELSE IF d = "cache"
            THEN [resolver EXCEPT ![i].ret = Local(n), ![i].pc = "returned"]
            ELSE IF d = "fetch"
            THEN [resolver EXCEPT ![i].url = UrlFor(n, platform, arch),
                                  ![i].pc = "starting"]
            ELSE [resolver EXCEPT ![i].err = n \o " binary not found",
                                  ![i].pc = "threw"]
    /\ UNCHANGED <<envVars, diskVars, pipeVars, cli, argLists>>

\* downloadFile: mkdirSync, createWriteStream (the file is created, or
\* truncated if another invocation created it meanwhile) and get.
RStartFetch(i) ==
    /\ resolver[i].pc = "starting"
    /\ binDir' = TRUE
    /\ cache' = [cache EXCEPT ![resolver[i].name] = "empty"]
    /\ resolver' = [resolver EXCEPT ![i].reqs = @ + 1, ![i].pc = "fetching"]
    /\ UNCHANGED <<envVars, outFile, pipeVars, cli, argLists>>

\* downloadFile: the response callback of get().
RResponse(i, status) ==
    /\ resolver[i].pc = "fetching"
    /\ resolver' =
            IF status # 200
            THEN [resolver EXCEPT ![i].err = DownloadFailed(status),
                                  ![i].pc = "threw"]
            ELSE [resolver EXCEPT ![i].pc = "body"]
    /\ UNCHANGED <<envVars, diskVars, pipeVars, cli, argLists>>

\* downloadFile: the request's 'error' event before any response.
RNetError(i) ==
    /\ resolver[i].pc = "fetching"
    /\ resolver' = [resolver EXCEPT ![i].err = NetErr, ![i].pc = "threw"]
    /\ UNCHANGED <<envVars, diskVars, pipeVars, cli, argLists>>

\* response.pipe(file): a part of the body reaches the file.
RBodyChunk(i) ==
    /\ resolver[i].pc = "body"
    /\ cache[resolver[i].name] = "empty"
    /\ cache' = [cache EXCEPT ![resolver[i].name] = "partial"]
    /\ UNCHANGED <<envVars, binDir, outFile, pipeVars, resolver, cli, argLists>>

\* file.on("finish"): downloadFile resolves and ensureBinary returns local.
\* The file is whole only if no other invocation is still writing it.
RBodyFinish(i) ==
    /\ resolver[i].pc = "body"
    /\ cache[resolver[i].name] = "partial"
    /\ cache' = [cache EXCEPT ![resolver[i].name] =
                    IF \E j \in Invocations \ {i} : Writing(j, resolver[i].name)
                    THEN "partial" ELSE "complete"]
    /\ resolver' = [resolver EXCEPT ![i].ret = Local(resolver[i].name),
                                    ![i].pc = "returned"]
    /\ UNCHANGED <<envVars, binDir, outFile, pipeVars, cli, argLists>>

\* The connection breaks during the body: the request emits 'error', or the
\* file never finishes and downloadFile never settles.
RBodyError(i) ==
    /\ resolver[i].pc = "body"
    /\ \/ resolver' = [resolver EXCEPT ![i].err = NetErr, ![i].pc = "threw"]
       \/ resolver' = [resolver EXCEPT ![i].pc = "hung"]
    /\ UNCHANGED <<envVars, diskVars, pipeVars, cli, argLists>>

NextResolver ==
    \/ \E i \in Invocations, n \in Names : RCall(i, n)
    \/ \E i \in Invocations : RLocated(i)
    \/ \E i \in Invocations : RStartFetch(i)
    \/ \E i \in Invocations, st \in Statuses : RResponse(i, st)
    \/ \E i \in Invocations : RNetError(i)
    \/ \E i \in Invocations : RBodyChunk(i)
    \/ \E i \in Invocations : RBodyFinish(i)
    \/ \E i \in Invocations : RBodyError(i)

SpecResolver == InitResolver /\ [][NextResolver]_vars

\* ---------------------------------------------------- command-line program
\* index.ts with the temp-file download of lib.ts (execFile variant): the
\* arguments are parsed, download applies its defaults, resolves the two
\* binaries, materializes the cookies, runs yt-dlp to completion and, with
\* no output path, reads the result back from the temp directory.

UrlArgs     == {<<>>, <<"">>, <<"https://youtu.be/x">>}
ModeArgs    == {<<>>, <<"--mode", "audio">>, <<"--mode", "video">>, <<"--mode">>}
FormatArgs  == {<<>>, <<"--format", "mp3">>, <<"--format", "mkv">>}
QualityArgs == {<<>>, <<"--quality", "320k">>, <<"--quality", "best">>}
OutputArgs  == {<<>>, <<"--output", "out.mp3">>}
CookieArgs  == {<<>>, <<"--cookies", "cookies.txt">>, <<"--cookies", "SID=1">>}
Argvs ==
    { u \o f \o q \o o \o c \o m :
        u \in UrlArgs, f \in FormatArgs, q \in QualityArgs, o \in OutputArgs,
        c \in CookieArgs, m \in ModeArgs }

\* Files of the temp directory that match easy-dl-*.
CookieFile == "easy-dl-cookies-1.txt"
MediaFile  == "easy-dl-abc.mp3"
OldFile    == "easy-dl-old.mp3"

\* const opts: any = {}
NoOpts ==
    [mode |-> Undefined, format |-> Undefined, quality |-> Undefined,
     output |-> Undefined, cookies |-> Undefined]

\* The option a flag of parseArgs assigns ("" for any other word).
FlagField(flag) ==
    CASE flag = "--mode"    -> "mode"
      [] flag = "--format"  -> "format"
      [] flag = "--quality" -> "quality"
      [] flag = "--output"  -> "output"
      [] flag = "--cookies" -> "cookies"
      [] OTHER -> ""

\* parseArgs: the while loop over the arguments after the URL.
RECURSIVE ParseFlags(_, _)
ParseFlags(args, o) ==
    IF args = <<>> THEN o
    ELSE LET flag == Head(args)
             rest == Tail(args)
         IN IF flag = "" THEN o
            ELSE IF FlagField(flag) # ""
            THEN ParseFlags(IF rest = <<>> THEN <<>> ELSE Tail(rest),
                            [o EXCEPT ![FlagField(flag)] =
                                IF rest = <<>> THEN Undefined ELSE Head(rest)])
            ELSE ParseFlags(rest, o)

\* parseArgs(argv)
ParseArgs(argv) ==
    [url  |-> IF argv = <<>> THEN Undefined ELSE Head(argv),
     opts |-> ParseFlags(IF argv = <<>> THEN <<>> ELSE Tail(argv), NoOpts)]

\* Variant of ApplyDefaults that picks the format and quality defaults from
\* the mode as passed, not from the defaulted mode.
ApplyDefaultsRawMode(o) ==
    [mode    |-> IF o.mode = Undefined THEN "audio" ELSE o.mode,
     format  |-> IF o.format = Undefined
                 THEN (IF o.mode = "audio" THEN "mp3" ELSE "mp4")
                 ELSE o.format,
     quality |-> IF o.quality = Undefined
                 THEN (IF o.mode = "audio" THEN "0" ELSE "best")
                 ELSE o.quality]

\* download: const mode, const format, const quality
ApplyDefaults(o) ==
    LET mode == IF o.mode = Undefined THEN "audio" ELSE o.mode
    IN [mode    |-> mode,
        format  |-> IF o.format = Undefined
                    THEN (IF mode = "audio" THEN "mp3" ELSE "mp4")
                    ELSE o.format,
        quality |-> IF o.quality = Undefined
                    THEN (IF mode = "audio" THEN "0" ELSE "best")
                    ELSE o.quality]

\* existsSync(options.cookies): of the two cookie values, "cookies.txt" is a
\* file on disk and "SID=1" is a raw cookie string.
CookiesPathExists(c) == c = "cookies.txt"

\* Variant of CliCatch that prints the error and lets the program end
\* normally.
CliCatchNoExit(c, e) ==
    [c EXCEPT !.outcome = "rejected", !.err = e,
              !.stderr = Append(@, "error"), !.exitCode = 0, !.pc = "exited"]

\* The catch block of the entry point: print the error, process.exit(1).
CliCatch(c, e) ==
    [c EXCEPT !.outcome = "rejected", !.err = e,
              !.stderr = Append(@, "error"), !.exitCode = 1, !.pc = "exited"]

InitCli ==
    /\ platform \in Platforms
    /\ arch = "x64"
    /\ onPath = [t \in Tools |-> TRUE]
    /\ cache = [t \in Tools |-> "absent"]
    /\ binDir = FALSE
    /\ resolver = ResolverIdle
    /\ argLists = ArgsNotBuilt
    /\ PipelineIdle
    /\ \E a \in Argvs, old \in SUBSET {OldFile} :
          cli = [pc |-> "start", argv |-> a, url |-> Undefined, opts |-> NoOpts,
                 mode |-> "", format |-> "", quality |-> "",
                 invoked |-> FALSE, tmp |-> old, created |-> {},
                 outcome |-> "none", err |-> "", read |-> "",
                 stderr |-> <<>>, exitCode |-> 0]

\* The entry point runs parseArgs and, with a URL, calls download, which
\* applies its defaults and starts resolving the binaries.
CliStart ==
    /\ cli.pc = "start"
    /\ LET pa == ParseArgs(cli.argv)
           d  == ApplyDefaults(pa.opts)
       IN cli' =
            IF pa.url = Undefined \/ pa.url = ""
            THEN [cli EXCEPT !.stderr = Append(@, "usage"), !.exitCode = 1,
                             !.pc = "exited"]
            ELSE [cli EXCEPT !.url = pa.url, !.opts = pa.opts,
                             !.invoked = TRUE, !.mode = d.mode,
                             !.format = d.format, !.quality = d.quality,
                             !.pc = "resolving"]
    /\ UNCHANGED <<envVars, diskVars, pipeVars, resolver, argLists>>

\* One of the two ensureBinary calls rejects (a failed fetch).
CliResolveFails ==
    /\ cli.pc = "resolving"
    /\ \E st \in Statuses \ {200} : cli' = CliCatch(cli, DownloadFailed(st))
    /\ UNCHANGED <<envVars, diskVars, pipeVars, resolver, argLists>>

\* Both binaries are resolved: download builds the arguments, writes the
\* cookies to a temp file unless they name an existing file, and starts
\* yt-dlp.
CliResolved ==
    /\ cli.pc = "resolving"
    /\ cli' =
         IF cli.opts.cookies # Undefined /\ cli.opts.cookies # ""
            /\ ~CookiesPathExists(cli.opts.cookies)
         THEN [cli EXCEPT !.tmp = @ \cup {CookieFile},
                          !.created = @ \cup {CookieFile}, !.pc = "running"]
         ELSE [cli EXCEPT !.pc = "running"]
    /\ UNCHANGED <<envVars, diskVars, pipeVars, resolver, argLists>>

\* yt-dlp writes the media file; without an output option the -o template
\* puts it into the temp directory.
CliYtWrites ==
    /\ cli.pc = "running"
    /\ cli.opts.output = Undefined
    /\ MediaFile \notin cli.tmp
    /\ cli' = [cli EXCEPT !.tmp = @ \cup {MediaFile},
                          !.created = @ \cup {MediaFile}]
    /\ UNCHANGED <<envVars, diskVars, pipeVars, resolver, argLists>>

\* execFileAsync settles.  A non-zero code rejects download.  Otherwise,
\* with no output path, download takes the first easy-dl-* file of the temp
\* directory, reads and deletes it; then the entry point is done and the
\* program ends with code 0.
CliYtExit(code) ==
    /\ cli.pc = "running"
    /\ IF code # 0
       THEN cli' = CliCatch(cli, "Command failed")
       ELSE IF cli.opts.output # Undefined /\ cli.opts.output # ""
       THEN cli' = [cli EXCEPT !.outcome = "void", !.pc = "exited"]
       ELSE IF cli.tmp = {}
       THEN cli' = CliCatch(cli, "No output file produced")
       ELSE \E f \in cli.tmp :
               cli' = [cli EXCEPT !.outcome = "buffer", !.read = f,
                                  !.tmp = @ \ {f}, !.pc = "exited"]
    /\ UNCHANGED <<envVars, diskVars, pipeVars, resolver, argLists>>

NextCli ==
    \/ CliStart
    \/ CliResolveFails
    \/ CliResolved
    \/ CliYtWrites
    \/ \E c \in ExitCodes : CliYtExit(c)

SpecCli == InitCli /\ [][NextCli]_vars

\* ------------------------------------------------------- argument lists
\* The piped download followed for its arguments only: the options of one
\* call, the defaults, and the two lists handed to spawn.

ExtraYtdlpArgs  == {<<>>, <<"--no-playlist">>, <<"-f", "worst">>}
ExtraFfmpegArgs == {<<>>, <<"-b:a", "192k">>}

\* DownloadOptions: mode, format, quality and output may be undefined; the
\* two extra lists are optional fields.
BaseOptions ==
    [mode : {Undefined, "audio", "video"}, format : {Undefined, "mp3", "mkv"},
     quality : {Undefined, "320k"}, output : Outputs]
ArgOptions ==
    UNION { { b,
              [ytdlpArgs |-> y] @@ b,
              [ffmpegArgs |-> f] @@ b,
              [ytdlpArgs |-> y, ffmpegArgs |-> f] @@ b } :
            b \in BaseOptions, y \in ExtraYtdlpArgs, f \in ExtraFfmpegArgs }

\* if (options.<field>?.length) push(...options.<field>)
Extra(o, field) ==
    IF field \in DOMAIN o /\ Len(o[field]) > 0 THEN o[field] ELSE <<>>

\* Variant of YtdlpArgs that puts the caller's arguments first.
YtdlpArgsExtrasFirst(u, o, d) ==
    Extra(o, "ytdlpArgs")
    \o (IF d.mode = "audio"
        THEN <<"-f", d.quality>>
        ELSE <<"-f", d.quality, "--merge-output-format", d.format>>)
    \o <<"--quiet", "--no-warnings">>
    \o <<"-o", OutputPath(o), u>>

\* const ytdlpArgs, as passed to spawn(ytDlp, ytdlpArgs); d holds the
\* defaulted mode, format and quality.
YtdlpArgs(u, o, d) ==
    (IF d.mode = "audio"
     THEN <<"-f", d.quality>>
     ELSE <<"-f", d.quality, "--merge-output-format", d.format>>)
    \o <<"--quiet", "--no-warnings">>
    \o <<"-o", OutputPath(o), u>>
    \o Extra(o, "ytdlpArgs")

\* const ffmpegArgs, as passed to spawn(ffmpeg, ffmpegArgs).
FfmpegArgs(o, d) ==
    (IF d.mode = "audio"
     THEN <<"-i", "pipe:0", "-vn", "-f", d.format, "pipe:1">>
     ELSE <<"-i", "pipe:0", "-c", "copy", "-f", d.format, "pipe:1">>)
    \o Extra(o, "ffmpegArgs")

InitArgs ==
    /\ platform \in Platforms
    /\ arch = "x64"
    /\ onPath = [t \in Tools |-> TRUE]
    /\ cache = [t \in Tools |-> "absent"]
    /\ binDir = FALSE
    /\ resolver = ResolverIdle
    /\ cli = CliNotStarted
    /\ PipelineIdle
    /\ argLists = [pc |-> "idle"]

\* download(u, o) is called: the URL check and the defaults, then the two
\* ensureBinary calls are awaited.
ArgsCall(u, o) ==
    /\ argLists.pc = "idle"
    /\ argLists' =
         IF u = ""
         THEN [pc |-> "rejected", url |-> u, options |-> o]
         ELSE [pc |-> "resolving", url |-> u, options |-> o,
               defaults |-> ApplyDefaults(o)]
    /\ UNCHANGED <<envVars, diskVars, pipeVars, resolver, cli>>

\* The promise executor builds both lists and spawns the two processes.
ArgsExecutor ==
    /\ argLists.pc = "resolving"
    /\ argLists' =
         [pc |-> "spawned", url |-> argLists.url, options |-> argLists.options,
          defaults |-> argLists.defaults,
          ytdlpArgs |-> YtdlpArgs(argLists.url, argLists.options,
                                  argLists.defaults),
          ffmpegArgs |-> FfmpegArgs(argLists.options, argLists.defaults)]
    /\ UNCHANGED <<envVars, diskVars, pipeVars, resolver, cli>>

NextArgs ==
    \/ \E u \in Urls, o \in ArgOptions : ArgsCall(u, o)
    \/ ArgsExecutor

SpecArgs == InitArgs /\ [][NextArgs]_vars

\* --------------------------------------------------------------- claims

\* The path ensureBinary returned for tool t in this invocation ("" if none).
PathOf(t) == IF t = "yt-dlp" THEN ytDlp ELSE ffmpeg

\* The bytes of a list of chunks, taken from the last chunk backwards.
RECURSIVE BytesOf(_)
BytesOf(list) ==
    IF list = <<>>
    THEN <<>>
    ELSE BytesOf(SubSeq(list, 1, Len(list) - 1)) \o list[Len(list)]

\* The number of bytes in a list of chunks.
RECURSIVE ByteCount(_)
ByteCount(list) ==
    IF list = <<>> THEN 0 ELSE Len(Head(list)) + ByteCount(Tail(list))

\* C1: once ffmpeg's close event has been handled with a non-zero exit
\* code, the promise is rejected with "ffmpeg exited with code <N>" for
\* that N, whatever yt-dlp's exit code is and whichever close event came
\* first; it stays so when yt-dlp's close event arrives afterwards.
C1_TranscoderExitFails ==
    (ff = "closed" /\ ffCode # 0) =>
        /\ result.kind = "rejected"
        /\ result.err = "ffmpeg exited with code " \o ToString(ffCode)
        /\ pc = "failed"

\* C1 witness: ffmpeg closed first with a non-zero code, yt-dlp closed
\* afterwards with code 0, and the promise is rejected.
C1_Witness ==
    /\ closeOrder = <<"ff", "yt">>
    /\ ffCode = 2
    /\ ytCode = 0
    /\ result.kind = "rejected"

\* C2: a non-zero yt-dlp exit code is logged as one warning and leaves the
\* promise alone: while ffmpeg has not closed the promise stays pending, and
\* once ffmpeg has closed with code 0 the promise is resolved, whatever
\* yt-dlp's exit code is and in either order of the two close events.
C2_DownloaderExitAbsorbed ==
    /\ (ff = "closed" /\ ffCode = 0) =>
            (result.kind \in {"buffer", "void"} /\ pc = "completed")
    /\ (yt = "closed" /\ ff \in {"running", "exited"}) =>
            (result.kind = "pending" /\ pc = "streaming")
    /\ yt = "closed" => warnings = (IF ytCode # 0 THEN 1 ELSE 0)

\* C2 witness: yt-dlp closed first with a non-zero code, ffmpeg closed
\* afterwards with code 0, and the promise is resolved.
C2_Witness ==
    /\ closeOrder = <<"yt", "ff">>
    /\ ytCode # 0
    /\ ffCode = 0
    /\ warnings = 1
    /\ result.kind \in {"buffer", "void"}

\* C3: a settled-with-success promise carries a buffer exactly when
\* options.output is missing (undefined or the empty string) and is void
\* exactly when an output path was given; a completed invocation has one of
\* the two and never a buffer in file mode.
C3_ResultByOutput ==
    /\ pc = "completed" <=> result.kind \in {"buffer", "void"}
    /\ result.kind = "buffer" => options.output \in {Undefined, ""}
    /\ result.kind = "void" => options.output \notin {Undefined, ""}
    /\ result.kind = "void" => result.data = <<>>

\* C3 witness: a completed invocation in file mode resolved with void
\* although ffmpeg wrote chunks to its stdout.
C3_Witness ==
    /\ pc = "completed"
    /\ options.output = "out.mp4"
    /\ result.kind = "void"
    /\ emitted # <<>>

\* C4: the buffer download resolves with is the bytes of every chunk ffmpeg
\* wrote to its stdout, in the order written, so its length is the number
\* of bytes written.
C4_BufferIsEmitted ==
    result.kind = "buffer" =>
        /\ result.data = BytesOf(emitted)
        /\ Len(result.data) = ByteCount(emitted)

\* C4 witness: a buffer made of two different chunks.
C4_Witness ==
    /\ result.kind = "buffer"
    /\ Len(emitted) = 2
    /\ emitted[1] # emitted[2]

\* C5 (as claimed): in buffer mode a resolved promise carries a non-empty
\* buffer.
C5_BufferNonEmpty ==
    result.kind = "buffer" => Len(result.data) > 0

\* C6 (as claimed): in file mode, when the promise resolves the file at the
\* output path exists and is non-empty.
C6_OutputFileWritten ==
    result.kind = "void" => outFile = "written"

\* C7: ensureBinary looks at its sources in the order locate command, cache
\* file, fetch and stops at the first that succeeds: a tool on the path is
\* returned by its bare executable name after the locate command alone; a
\* tool off the path with a cache file is returned as ./bin/<exe> after the
\* locate command and the cache check, with no request made; only a tool in
\* neither place is fetched, and its cache path is returned after the
\* response was 200 and the file is complete.
C7_ResolutionOrder ==
    \A t \in Tools :
        /\ consulted[t] \in {<<>>, <<"path">>, <<"path", "cache">>,
                             <<"path", "cache", "fetch">>}
        /\ PathOf(t) # "" =>
            IF onPath[t]
            THEN /\ consulted[t] = <<"path">>
                 /\ PathOf(t) = (IF platform = "win32" THEN t \o ".exe" ELSE t)
                 /\ netReq[t] = 0
            ELSE IF cacheAtInvoke[t] # "absent"
            THEN /\ consulted[t] = <<"path", "cache">>
                 /\ PathOf(t) = "bin/" \o (IF platform = "win32" THEN t \o ".exe" ELSE t)
                 /\ netReq[t] = 0
            ELSE /\ consulted[t] = <<"path", "cache", "fetch">>
                 /\ PathOf(t) = "bin/" \o (IF platform = "win32" THEN t \o ".exe" ELSE t)
                 /\ netReq[t] = 1
                 /\ fetchStatus[t] = 200
                 /\ cache[t] = "complete"

\* C7 witness: in one invocation yt-dlp was on the path although cached,
\* and ffmpeg, in neither place, was fetched and returned.
C7_Witness ==
    /\ onPath["yt-dlp"]
    /\ cacheAtInvoke["yt-dlp"] = "complete"
    /\ ytDlp # ""
    /\ consulted["ffmpeg"] = <<"path", "cache", "fetch">>
    /\ ffmpeg # ""

\* C8: for a tool that is on the path or has a cache file when download is
\* called, the invocation makes no request and leaves the cache file as it
\* was; when that holds of both tools the invocation makes no request at
\* all and does not touch the cache directory.
C8_NoNetworkWhenPresent ==
    /\ \A t \in Tools :
          (calls > 0 /\ (onPath[t] \/ cacheAtInvoke[t] # "absent")) =>
              (netReq[t] = 0 /\ cache[t] = cacheAtInvoke[t])
    /\ (calls > 0 /\ \A t \in Tools : onPath[t] \/ cacheAtInvoke[t] # "absent") =>
          /\ \A t \in Tools : netReq[t] = 0
          /\ cache = cacheAtInvoke
          /\ binDir = dirAtInvoke

\* C8 witness: an invocation completed with both binaries taken from the
\* cache and no request made.
C8_Witness ==
    /\ pc = "completed"
    /\ \A t \in Tools : ~onPath[t] /\ cacheAtInvoke[t] = "complete"
    /\ \A t \in Tools : consulted[t] = <<"path", "cache">> /\ netReq[t] = 0

\* The release asset for each tool, platform and architecture.
C9_Asset(t) ==
    IF t = "yt-dlp"
    THEN "yt-dlp/yt-dlp/releases/latest/download/"
            \o (IF platform = "win32" THEN "yt-dlp.exe" ELSE "yt-dlp")
    ELSE "eugeneware/ffmpeg-static/releases/latest/download/"
            \o (IF platform = "win32" THEN "win32-x64.exe" ELSE platform \o "-" \o arch)

\* C9: a tool that is neither on the path nor in the cache is fetched with
\* exactly one request, to the release asset of the tool, platform and
\* architecture; when that fetch fails, download is rejected with the
\* fetch's own error, no second request is made and no process is spawned.
C9_OneFetchNoRetry ==
    /\ \A t \in Tools :
          (~onPath[t] /\ cacheAtInvoke[t] = "absent" /\ consulted[t] # <<>>) =>
              /\ netReq[t] = 1
              /\ lastUrl[t] = "https://github.com/" \o C9_Asset(t)
    /\ \A t \in Tools : netReq[t] <= 1
    /\ fetchErr # "" =>
          /\ result.kind = "rejected"
          /\ result.err = fetchErr
          /\ result.err = (IF fetchStatus[cur] = 0 \/ fetchStatus[cur] = 200
                           THEN "ECONNRESET"
                           ELSE "Download failed: " \o ToString(fetchStatus[cur]))
          /\ pc = "failed"
          /\ yt = "none"
          /\ ff = "none"

\* C9 witness: the fetch of ffmpeg ended with status 404 after yt-dlp had
\* been resolved; one request was made for ffmpeg and nothing was spawned.
C9_Witness ==
    /\ cur = "ffmpeg"
    /\ ytDlp # ""
    /\ fetchStatus["ffmpeg"] = 404
    /\ fetchErr = "Download failed: 404"
    /\ netReq["ffmpeg"] = 1
    /\ pc = "failed"

\* C10 (as claimed): after a fetch of tool t ended with a status other than
\* 200, no ensureBinary call accepts ./bin/<exe> through its cache check and
\* returns it.
C10_FailedFetchNotAccepted ==
    \A t \in Tools :
        (fetchStatus[t] \notin {0, 200}) =>
            ~(consulted[t] = <<"path", "cache">> /\ PathOf(t) # "")

\* C11: ensureBinary("ffmpeg") starts only after ensureBinary("yt-dlp") has
\* returned; a process exists only when both paths have been returned; and
\* an invocation whose resolution failed or stalled has no process.
C11_SpawnAfterBothResolved ==
    /\ (cur = "ffmpeg" \/ consulted["ffmpeg"] # <<>> \/ ffmpeg # "") => ytDlp # ""
    /\ (yt # "none" \/ ff # "none") => (ytDlp # "" /\ ffmpeg # "")
    /\ (yt = "none") <=> (ff = "none")
    /\ (ytDlp = "" \/ ffmpeg = "") => (yt = "none" /\ ff = "none")
    /\ (fetchErr # "" \/ pc \in {"which", "fetching", "body", "hung"}) =>
            (yt = "none" /\ ff = "none")

\* C11 witness: both processes run after yt-dlp came from the path and
\* ffmpeg had to be fetched.
C11_Witness ==
    /\ consulted["yt-dlp"] = <<"path">>
    /\ consulted["ffmpeg"] = <<"path", "cache", "fetch">>
    /\ yt = "running"
    /\ ff = "running"

\* C12 (as claimed): once the 'error' event of a failed spawn has been
\* delivered, the promise is rejected and the invocation is in Failed.
C12_SpawnErrorRejects ==
    (pc = "crashed" \/ yt = "orphaned" \/ ff = "orphaned") =>
        (result.kind = "rejected" /\ pc = "failed")

\* Position of an invocation in Idle < Resolving(yt-dlp) < Resolving(ffmpeg)
\* < Spawned/Streaming < Completed|Failed.
C17_Rank(p, c) ==
    CASE p = "idle" -> 0
      [] p \in {"which", "fetching", "body", "hung"} ->
            (IF c = "yt-dlp" THEN 1 ELSE 2)
      [] p \in {"streaming", "crashed"} -> 3
      [] p \in {"completed", "failed"} -> 4

\* C17: within one invocation every step keeps or advances the position in
\* Idle, Resolving(yt-dlp), Resolving(ffmpeg), Streaming, Completed|Failed;
\* Completed and Failed are never left, and a settled promise never changes,
\* also when a close event arrives later.
C17_ForwardOnly ==
    [][ (calls' = calls) =>
            /\ C17_Rank(pc', cur') >= C17_Rank(pc, cur)
            /\ pc \in {"completed", "failed"} => (pc' = pc /\ result' = result)
            /\ result.kind # "pending" => result' = result ]_vars

\* C17 witness: yt-dlp's close event arrived with a non-zero code after the
\* invocation had completed.
C17_Witness ==
    /\ pc = "completed"
    /\ closeOrder = <<"ff", "yt">>
    /\ ytCode = 2

\* C19 (as claimed): downloadFile always settles: a fetch whose connection
\* failed during the body is rejected with that error; a status other than
\* 200 rejects with "Download failed: <status>" and no body byte written;
\* it resolves only after status 200 with the whole body in the file.
C19_DownloadFileSettles ==
    /\ pc # "hung"
    /\ fetchErr = NetErr => result = Rejected(NetErr)
    /\ (fetchErr # "" /\ fetchErr # NetErr) =>
            /\ result.err = "Download failed: " \o ToString(fetchStatus[cur])
            /\ cache[cur] = "empty"
    /\ \A t \in Tools :
            (consulted[t] = <<"path", "cache", "fetch">> /\ PathOf(t) # "") =>
                (fetchStatus[t] = 200 /\ cache[t] = "complete")

\* C20: once the processes are spawned the promise is settled exactly when
\* ffmpeg's close event has been handled: it is pending while ffmpeg has
\* not closed, whether or not yt-dlp has closed, and settled from the close
\* handler on.
C20_SettlesOnTranscoderClose ==
    yt # "none" =>
        /\ (result.kind # "pending") <=> (ff = "closed")
        /\ (ff = "closed") <=> (pc \in {"completed", "failed"})

\* C20 witness: yt-dlp has closed, ffmpeg has ended but its close event has
\* not been delivered, and the promise is still pending.
C20_Witness ==
    /\ yt = "closed"
    /\ ff = "exited"
    /\ pipeOut # <<>>
    /\ result.kind = "pending"

\* C16 (as claimed): ensureBinary of a name other than yt-dlp and ffmpeg
\* never returns a path and never starts a fetch; it only throws.
C16_UnknownNameAlwaysFails ==
    \A i \in Invocations :
        (resolver[i].name # "" /\ resolver[i].name \notin Tools) =>
            /\ resolver[i].pc \in {"which", "threw"}
            /\ resolver[i].ret = ""

\* C16 (amended): ensureBinary of a name other than yt-dlp and ffmpeg never
\* starts a fetch; it returns the bare executable name when the locate
\* command finds it, the ./bin path when that file exists, and throws
\* "<name> binary not found" only when the name is in neither place.
C16_UnknownNameNoFetch ==
    \A i \in Invocations :
        LET n == resolver[i].name
            exe == IF platform = "win32" THEN n \o ".exe" ELSE n
        IN (n # "" /\ n \notin Tools) =>
            /\ resolver[i].pc \in {"which", "returned", "threw"}
            /\ resolver[i].reqs = 0
            /\ resolver[i].url = ""
            /\ resolver[i].pc = "returned" =>
                    IF onPath[n] THEN resolver[i].ret = exe
                    ELSE (cache[n] # "absent" /\ resolver[i].ret = "bin/" \o exe)
            /\ resolver[i].pc = "threw" =>
                    /\ ~onPath[n]
                    /\ cache[n] = "absent"
                    /\ resolver[i].err = n \o " binary not found"
                    /\ resolver[i].ret = ""

\* C16 witness: ensureBinary returned a path for the unknown name while
\* another invocation is fetching ffmpeg.
C16_Witness ==
    \E i, j \in Invocations :
        /\ resolver[i].name = "curl" /\ resolver[i].pc = "returned"
        /\ resolver[j].name = "ffmpeg" /\ resolver[j].pc = "fetching"

\* C18 (as claimed): no two invocations write the same cache file at the
\* same time, and no invocation returns the cache path while another
\* invocation is still writing that file.
C18_NoCacheRace ==
    [][ /\ \A i, j \in Invocations, n \in Names :
              (i # j) => ~(Writing(i, n)' /\ Writing(j, n)')
        /\ \A i \in Invocations :
              (/\ resolver[i].pc # "returned"
               /\ resolver'[i].pc = "returned"
               /\ resolver'[i].ret = "bin/" \o Exe(resolver[i].name)) =>
                  ~\E j \in Invocations \ {i} : Writing(j, resolver[i].name) ]_vars

\* C13 (as claimed): when the invocation has ended, no temp file it created
\* (the materialized cookie file, the media file of buffer mode) is left.
C13_TempFilesRemoved ==
    cli.pc = "exited" => cli.created \cap cli.tmp = {}

C21_Given(o, field) == IF field \in DOMAIN o THEN o[field] ELSE <<>>

\* C21: the yt-dlp list is -f <quality>, in video mode then
\* --merge-output-format <format>, then --quiet --no-warnings, then -o with
\* the caller's output path or "-" when none is given, then the URL, then
\* the caller's extra yt-dlp arguments in order; the ffmpeg list is
\* -i pipe:0, then -vn (audio) or -c copy (video), then -f <format> pipe:1,
\* then the caller's extra ffmpeg arguments in order.
C21_ArgumentLists ==
    argLists.pc = "spawned" =>
        LET o  == argLists.options
            d  == argLists.defaults
            y  == argLists.ytdlpArgs
            f  == argLists.ffmpegArgs
            ey == C21_Given(o, "ytdlpArgs")
            ef == C21_Given(o, "ffmpegArgs")
            ny == Len(y) - Len(ey)
            nf == Len(f) - Len(ef)
            target == IF o.output \in {Undefined, ""} THEN "-" ELSE o.output
        IN /\ ny = (IF d.mode = "audio" THEN 7 ELSE 9)
           /\ y[1] = "-f" /\ y[2] = d.quality
           /\ d.mode # "audio" =>
                  (y[3] = "--merge-output-format" /\ y[4] = d.format)
           /\ SubSeq(y, ny - 4, ny) =
                  <<"--quiet", "--no-warnings", "-o", target, argLists.url>>
           /\ SubSeq(y, ny + 1, Len(y)) = ey
           /\ nf = (IF d.mode = "audio" THEN 6 ELSE 7)
           /\ SubSeq(f, 1, 2) = <<"-i", "pipe:0">>
           /\ d.mode = "audio" => f[3] = "-vn"
           /\ d.mode # "audio" => (f[3] = "-c" /\ f[4] = "copy")
           /\ SubSeq(f, nf - 2, nf) = <<"-f", d.format, "pipe:1">>
           /\ SubSeq(f, nf + 1, Len(f)) = ef

\* C21 witness: a video call with an output path and extra arguments for
\* both processes has spawned them.
C21_Witness ==
    /\ argLists.pc = "spawned"
    /\ argLists.defaults.mode = "video"
    /\ argLists.options.output = "out.mp4"
    /\ Len(C21_Given(argLists.options, "ytdlpArgs")) = 2
    /\ Len(C21_Given(argLists.options, "ffmpegArgs")) = 2
    /\ Len(argLists.ytdlpArgs) = 11
    /\ Len(argLists.ffmpegArgs) = 9

C23_ReadsOwnMedia ==
    (cli.pc = "exited" /\ cli.outcome = "buffer") =>
        /\ cli.read = MediaFile
        /\ cli.read \in cli.created
        /\ cli.read # CookieFile

====
